---- MODULE Spec2Model ----
(***************************************************************************)
(* diesel_ltree: the ltree value codec (binary and text protocol) and the  *)
(* operator extension methods of src/lib.rs, as a state machine.           *)
(*                                                                         *)
(* A byte is a number 0..255, a Rust String is the sequence of its UTF-8   *)
(* bytes, and Ltree(s) is the record holding that String in field "0"      *)
(* (written f0).  An SQL fragment is a TLA+ string.                        *)
(***************************************************************************)
EXTENDS Integers, Sequences, FiniteSets, TLC

\* ------------------------------------------------------------------ bounds
\* longest path String (in bytes) the driver encodes, and longest payload
\* tail (bytes after the version byte) it hands to the decoders
MaxLen == 3
\* longest content already in the Output buffer a value is written to
MaxOut == 2
\* deepest nesting of operator expressions built by chaining
MaxDepth == 1

\* ------------------------------------------------------------------ bytes
\* bytes the payloads and Strings are drawn from: 'a', '.', the 2-byte
\* lead 0xC3, the continuation bytes 0xA9 and 0x82, the 3-byte leads 0xE2
\* and 0xED (the surrogate range starts at ED A0), and 0xFF (never valid)
TailBytes == {97, 46, 195, 169, 130, 226, 237, 255}

\* bytes the client's path Strings are built from: U+0001, '.', 'a', and
\* the two bytes of U+00E9
StringBytes == {1, 46, 97, 195, 169}

\* bytes already in an Output buffer: any binary data
OutputBytes == {0, 97}

\* first bytes of a binary payload: 1 is the only version ltree_send emits;
\* 128 and 255 are the signed bytes -128 and -1
VersionBytes == {0, 1, 2, 97, 127, 128, 255}

RECURSIVE SeqsUpTo(_, _)
SeqsUpTo(S, n) ==
  IF n = 0 THEN {<<>>}
  ELSE LET shorter == SeqsUpTo(S, n - 1)
       IN  shorter \cup {Append(t, b) : t \in {u \in shorter : Len(u) = n - 1}, b \in S}

\* ------------------------------------------------------------- UTF-8 check
\* std's UTF8_CHAR_WIDTH table: the length of the sequence a first byte opens
utf8_char_width(b) ==
  IF b < 128 THEN 1
  ELSE IF b >= 194 /\ b <= 223 THEN 2
  ELSE IF b >= 224 /\ b <= 239 THEN 3
  ELSE IF b >= 240 /\ b <= 244 THEN 4
  ELSE 0

IsCont(b) == b >= 128 /\ b <= 191

\* std's run_utf8_validation, from position i of v
RECURSIVE run_utf8_validation(_, _)
run_utf8_validation(v, i) ==
  IF i > Len(v) THEN TRUE
  ELSE LET first == v[i]
           w == utf8_char_width(first)
       IN  CASE w = 1 -> run_utf8_validation(v, i + 1)
             [] w = 2 -> /\ i + 1 <= Len(v)
                         /\ IsCont(v[i + 1])
                         /\ run_utf8_validation(v, i + 2)
             [] w = 3 -> /\ i + 2 <= Len(v)
                         /\ \/ first = 224 /\ v[i + 1] >= 160 /\ v[i + 1] <= 191
                            \/ first >= 225 /\ first <= 236 /\ IsCont(v[i + 1])
                            \/ first = 237 /\ v[i + 1] >= 128 /\ v[i + 1] <= 159
                            \/ first >= 238 /\ first <= 239 /\ IsCont(v[i + 1])
                         /\ IsCont(v[i + 2])
                         /\ run_utf8_validation(v, i + 3)
             [] w = 4 -> /\ i + 3 <= Len(v)
                         /\ \/ first = 240 /\ v[i + 1] >= 144 /\ v[i + 1] <= 191
                            \/ first >= 241 /\ first <= 243 /\ IsCont(v[i + 1])
                            \/ first = 244 /\ v[i + 1] >= 128 /\ v[i + 1] <= 143
                         /\ IsCont(v[i + 2])
                         /\ IsCont(v[i + 3])
                         /\ run_utf8_validation(v, i + 4)
             [] OTHER -> FALSE

from_utf8_ok(v) == run_utf8_validation(v, 1)

\* ------------------------------------------------------------- the values
\* pub struct Ltree(pub String)
Ltree(s) == [f0 |-> s]

\* the path "a.b.c" of the text-protocol example
ExamplePath == <<97, 46, 98, 46, 99>>

\* the Strings a client builds paths from: always valid UTF-8
Strings == {s \in SeqsUpTo(StringBytes, MaxLen) : from_utf8_ok(s)} \cup {ExamplePath}

\* what an Output buffer holds before a value is written to it
Prefixes == SeqsUpTo(OutputBytes, MaxOut)

\* the binary payloads a row can carry: nothing at all, or a first byte
\* and any bytes after it
Payloads ==
  {<<>>} \cup {<<v>> \o t : v \in VersionBytes, t \in SeqsUpTo(TailBytes, MaxLen)}

\* the text payloads a row can carry
TextPayloads == SeqsUpTo(TailBytes, MaxLen) \cup {ExamplePath}

\* results
SerOk(isnull) == [tag |-> "Ok", isnull |-> isnull]
SerErr == [tag |-> "Err", isnull |-> "-"]
SerNone == [tag |-> "None", isnull |-> "-"]

DeOk(l) == [tag |-> "Ok", val |-> l.f0, err |-> ""]
DeErr(e) == [tag |-> "Err", val |-> <<>>, err |-> e]
DePanic(msg) == [tag |-> "Panic", val |-> <<>>, err |-> msg]
DeNone == [tag |-> "None", val |-> <<>>, err |-> ""]

\* ----------------------------------------------------------- binary codec
\* Write::write_all on the Output's byte buffer: appends, cannot fail
write_all(buf, bytes) == [tag |-> "Ok", out |-> buf \o bytes]

\* to_sql with a length byte written before the string's bytes
to_sql_length_prefixed(slf, buf) ==
  [out |-> write_all(buf, <<Len(slf.f0)>> \o slf.f0).out, ret |-> SerOk("No")]

\* to_sql reporting the empty path as SQL NULL
to_sql_empty_is_null(slf, buf) ==
  IF slf.f0 = <<>> THEN [out |-> buf, ret |-> SerOk("Yes")]
  ELSE [out |-> write_all(buf, slf.f0).out, ret |-> SerOk("No")]

\* ToSql<sql_types::Ltree, Pg>::to_sql
to_sql(slf, buf) ==
  LET w == write_all(buf, slf.f0)
  IN  IF w.tag = "Err" THEN [out |-> w.out, ret |-> SerErr]
      ELSE [out |-> w.out, ret |-> SerOk("No")]

\* read_i8 answering the expected version at the end of the input
read_i8_eof_as_version(raw) ==
  IF Len(raw) = 0 THEN [tag |-> "Ok", v |-> 1, rest |-> raw]
  ELSE [tag |-> "Ok",
        v |-> IF raw[1] >= 128 THEN raw[1] - 256 ELSE raw[1],
        rest |-> Tail(raw)]

\* ReadBytesExt::read_i8: one byte, read as a signed 8-bit number
read_i8(raw) ==
  IF Len(raw) = 0 THEN [tag |-> "Err", v |-> 0, rest |-> raw]
  ELSE [tag |-> "Ok",
        v |-> IF raw[1] >= 128 THEN raw[1] - 256 ELSE raw[1],
        rest |-> Tail(raw)]

\* read_to_string without the UTF-8 check
read_to_string_unchecked(raw) == [tag |-> "Ok", buf |-> raw]

\* Read::read_to_string: all remaining bytes, refused unless valid UTF-8
read_to_string(raw) ==
  IF from_utf8_ok(raw) THEN [tag |-> "Ok", buf |-> raw]
  ELSE [tag |-> "Err", buf |-> <<>>]

\* from_sql looking at the version byte without consuming it
from_sql_keeps_version(value, dbg) ==
  LET r == read_i8(value)
  IN  IF r.tag = "Err" THEN DeErr("UnexpectedEof")
      ELSE IF dbg /\ r.v # 1
           THEN DePanic("Unknown ltree binary protocol version.")
      ELSE LET t == read_to_string(value)
           IN  IF t.tag = "Err" THEN DeErr("InvalidData")
               ELSE DeOk(Ltree(t.buf))

\* from_sql refusing an unknown version in every build
from_sql_hard_check(value, dbg) ==
  LET r == read_i8(value)
  IN  IF r.tag = "Err" THEN DeErr("UnexpectedEof")
      ELSE IF r.v # 1 THEN DeErr("Unknown ltree binary protocol version.")
      ELSE LET t == read_to_string(r.rest)
           IN  IF t.tag = "Err" THEN DeErr("InvalidData")
               ELSE DeOk(Ltree(t.buf))

\* FromSql<sql_types::Ltree, Pg>::from_sql, in a build with debug
\* assertions on (dbg) or off
from_sql(value, dbg) ==
  LET r == read_i8(value)
  IN  IF r.tag = "Err" THEN DeErr("UnexpectedEof")
      ELSE IF dbg /\ r.v # 1
           THEN DePanic("Unknown ltree binary protocol version.")
      ELSE LET t == read_to_string(r.rest)
           IN  IF t.tag = "Err" THEN DeErr("InvalidData")
               ELSE DeOk(Ltree(t.buf))

\* ------------------------------------------------------------- text codec
\* String's own ToSql<Text, DB>: the bytes of the string
String_to_sql(s, buf) ==
  LET w == write_all(buf, s)
  IN  [out |-> w.out, ret |-> SerOk("No")]

\* String's own FromSql<Text, DB>: the payload, if it is valid UTF-8
String_from_sql(value) ==
  IF from_utf8_ok(value) THEN [tag |-> "Ok", s |-> value, err |-> ""]
  ELSE [tag |-> "Err", s |-> <<>>, err |-> "Utf8Error"]

\* ToSql<Text, DB>::to_sql for Ltree
text_to_sql(slf, buf) == String_to_sql(slf.f0, buf)

\* the text decode written like the binary one: a version byte first
text_from_sql_versioned(value) == from_sql(value, FALSE)

\* FromSql<Text, DB>::from_sql for Ltree
text_from_sql(value) ==
  LET r == String_from_sql(value)
  IN  IF r.tag = "Ok" THEN DeOk(Ltree(r.s)) ELSE DeErr(r.err)

\* --------------------------------------------------- operator expressions
\* SQL types an expression can carry
TLtree == "Ltree"
TLtreeArray == "Array<Ltree>"
TLquery == "Lquery"
TLqueryArray == "Array<Lquery>"
TLtxtquery == "Ltxtquery"
TBool == "Bool"

\* the declarations with the return type left out of the last five
infix_operator_all_bool(name) ==
  CASE name = "Contains" -> [sql |-> " @> ", ret |-> TBool]
    [] name = "ContainedBy" -> [sql |-> " <@ ", ret |-> TBool]
    [] name = "Matches" -> [sql |-> " ~ ", ret |-> TBool]
    [] name = "MatchesAny" -> [sql |-> " ? ", ret |-> TBool]
    [] name = "TMatches" -> [sql |-> " @ ", ret |-> TBool]
    [] name = "Concat" -> [sql |-> " || ", ret |-> TBool]
    [] name = "FirstContains" -> [sql |-> " ?@> ", ret |-> TBool]
    [] name = "FirstContainedBy" -> [sql |-> " ?<@ ", ret |-> TBool]
    [] name = "FirstMatches" -> [sql |-> " ?~ ", ret |-> TBool]
    [] name = "FirstTMatches" -> [sql |-> " ?@ ", ret |-> TBool]

\* dsl::predicates: the infix_operator! declarations; an operator declared
\* without a return type is boolean
infix_operator(name) ==
  CASE name = "Contains" -> [sql |-> " @> ", ret |-> TBool]
    [] name = "ContainedBy" -> [sql |-> " <@ ", ret |-> TBool]
    [] name = "Matches" -> [sql |-> " ~ ", ret |-> TBool]
    [] name = "MatchesAny" -> [sql |-> " ? ", ret |-> TBool]
    [] name = "TMatches" -> [sql |-> " @ ", ret |-> TBool]
    [] name = "Concat" -> [sql |-> " || ", ret |-> TLtree]
    [] name = "FirstContains" -> [sql |-> " ?@> ", ret |-> TLtree]
    [] name = "FirstContainedBy" -> [sql |-> " ?<@ ", ret |-> TLtree]
    [] name = "FirstMatches" -> [sql |-> " ?~ ", ret |-> TLtree]
    [] name = "FirstTMatches" -> [sql |-> " ?@ ", ret |-> TLtree]

Method(trait, name, left, right, opr) ==
  [trait |-> trait, name |-> name, left |-> left, right |-> right, op |-> opr]

\* trait LtreeExtensions: Expression<SqlType = Ltree>
LtreeExtensions ==
  { Method("LtreeExtensions", "contains", TLtree, TLtree, "Contains"),
    Method("LtreeExtensions", "contains_any", TLtree, TLtreeArray, "Contains"),
    Method("LtreeExtensions", "contained_by", TLtree, TLtree, "ContainedBy"),
    Method("LtreeExtensions", "contained_by_any", TLtree, TLtreeArray, "ContainedBy"),
    Method("LtreeExtensions", "matches", TLtree, TLquery, "Matches"),
    Method("LtreeExtensions", "matches_any", TLtree, TLqueryArray, "MatchesAny"),
    Method("LtreeExtensions", "tmatches", TLtree, TLtxtquery, "TMatches"),
    Method("LtreeExtensions", "concat", TLtree, TLtree, "Concat") }

\* trait LtreeArrayExtensions: Expression<SqlType = Array<Ltree>>
LtreeArrayExtensions ==
  { Method("LtreeArrayExtensions", "any_contains", TLtreeArray, TLtree, "Contains"),
    Method("LtreeArrayExtensions", "any_contained_by", TLtreeArray, TLtree, "ContainedBy"),
    Method("LtreeArrayExtensions", "any_matches", TLtreeArray, TLquery, "Matches"),
    Method("LtreeArrayExtensions", "any_matches_any", TLtreeArray, TLqueryArray, "MatchesAny"),
    Method("LtreeArrayExtensions", "any_tmatches", TLtreeArray, TLtxtquery, "TMatches"),
    Method("LtreeArrayExtensions", "first_contains", TLtreeArray, TLtree, "FirstContains"),
    Method("LtreeArrayExtensions", "first_contained_by", TLtreeArray, TLtree, "FirstContainedBy"),
    Method("LtreeArrayExtensions", "first_matches", TLtreeArray, TLquery, "FirstMatches"),
    Method("LtreeArrayExtensions", "first_tmatches", TLtreeArray, TLtxtquery, "FirstTMatches") }

\* LqueryExtensions with matches_any built on MatchesAny, as its name and
\* LtreeExtensions::matches_any suggest
LqueryExtensions_matches_any_op ==
  { Method("LqueryExtensions", "matches", TLquery, TLtree, "Matches"),
    Method("LqueryExtensions", "matches_any", TLquery, TLtreeArray, "MatchesAny") }

\* trait LqueryExtensions: Expression<SqlType = Lquery>
LqueryExtensions ==
  { Method("LqueryExtensions", "matches", TLquery, TLtree, "Matches"),
    Method("LqueryExtensions", "matches_any", TLquery, TLtreeArray, "Matches") }

\* trait LqueryArrayExtensions: Expression<SqlType = Array<Lquery>>
LqueryArrayExtensions ==
  { Method("LqueryArrayExtensions", "any_matches", TLqueryArray, TLtree, "MatchesAny"),
    Method("LqueryArrayExtensions", "any_matches_any", TLqueryArray, TLtreeArray, "MatchesAny") }

\* trait LtxtqueryExtensions: Expression<SqlType = Ltxtquery>
LtxtqueryExtensions ==
  { Method("LtxtqueryExtensions", "tmatches", TLtxtquery, TLtree, "TMatches"),
    Method("LtxtqueryExtensions", "tmatches_any", TLtxtquery, TLtreeArray, "TMatches") }

\* the blanket impls: every expression of the trait's SQL type has the
\* trait's methods
Methods ==
  LtreeExtensions \cup LtreeArrayExtensions \cup LqueryExtensions
    \cup LqueryArrayExtensions \cup LtxtqueryExtensions

\* an expression: its SQL type, its rendered SQL, and, when an extension
\* method built it, the method, the operator struct and the two operands
Leaf(sql, ty) ==
  [trait |-> "", method |-> "", op |-> "", lsql |-> "", lty |-> "", rsql |-> "",
   rty |-> "", sql |-> sql, ty |-> ty, depth |-> 0]

NoExpr == Leaf("", "")

\* the columns of a table with one column of each of the five types
Columns ==
  { Leaf("path", TLtree), Leaf("paths", TLtreeArray), Leaf("q", TLquery),
    Leaf("qs", TLqueryArray), Leaf("tq", TLtxtquery) }

\* a Rust value passed as an operand: as_expression makes it a bind
\* parameter of the SQL type the method asks for
BindValue == Leaf("$1", "value")

\* other.as_expression() for the bound T: AsExpression<st>
as_expression(other, st) ==
  IF other.ty = "value" THEN Leaf(other.sql, st) ELSE other

\* whether `other` satisfies T: AsExpression<st>
AsExpressionOf(other, st) == other.ty = "value" \/ other.ty = st

\* the walk_ast of an infix operator struct: left, the operator, right
walk_ast(opr, left, right) == left.sql \o infix_operator(opr).sql \o right.sql

\* a method body, Op::new(self, other.as_expression()), as the expression
\* it returns
call(m, left, other) ==
  LET right == as_expression(other, m.right)
  IN  [trait |-> m.trait, method |-> m.name, op |-> m.op,
       lsql |-> left.sql, lty |-> left.ty, rsql |-> right.sql, rty |-> right.ty,
       sql |-> walk_ast(m.op, left, right),
       ty |-> infix_operator(m.op).ret,
       depth |-> 1 + (IF left.depth > right.depth THEN left.depth ELSE right.depth)]

\* ------------------------------------------------------------------ state
VARIABLES
  debug_assertions,  \* the build: debug assertions compiled in or not
  op,                \* the call last made
  slf,               \* the Ltree value of the last encode
  out0,              \* the Output buffer as the last encode received it
  out,               \* the Output buffer as the last encode left it
  value,             \* the payload of the last decode
  ser,               \* what the last encode returned
  de,                \* what the last decode returned
  expr               \* the expression the last extension method returned

vars == <<debug_assertions, op, slf, out0, out, value, ser, de, expr>>

Init ==
  /\ debug_assertions \in BOOLEAN
  /\ op = "none"
  /\ slf = Ltree(<<>>)
  /\ out0 = <<>>
  /\ out = <<>>
  /\ value = <<>>
  /\ ser = SerNone
  /\ de = DeNone
  /\ expr = NoExpr

\* the bytes the last encode wrote
Written == SubSeq(out, Len(out0) + 1, Len(out))

Encode(name, l, pre, r) ==
  /\ op' = name
  /\ slf' = l
  /\ out0' = pre
  /\ out' = r.out
  /\ ser' = r.ret
  /\ value' = <<>>
  /\ de' = DeNone
  /\ expr' = NoExpr
  /\ UNCHANGED debug_assertions

Decode(name, payload, r) ==
  /\ op' = name
  /\ value' = payload
  /\ de' = r
  /\ ser' = SerNone
  /\ expr' = NoExpr
  /\ UNCHANGED debug_assertions

\* Each call below starts from the idle state (op = "none") or follows up
\* on the call before it.

\* a bind of an Ltree value to an ltree parameter
ToSql ==
  /\ op = "none"
  /\ \E s \in Strings, pre \in Prefixes :
       Encode("to_sql", Ltree(s), pre, to_sql(Ltree(s), pre))

\* a bind of an Ltree value to a text parameter
TextToSql ==
  /\ op = "none"
  /\ \E s \in Strings, pre \in Prefixes :
       Encode("text_to_sql", Ltree(s), pre, text_to_sql(Ltree(s), pre))

\* an ltree column of a fetched row
FromSql ==
  /\ op = "none"
  /\ \E payload \in Payloads :
       Decode("from_sql", payload, from_sql(payload, debug_assertions))
  /\ slf' = Ltree(<<>>) /\ out0' = <<>> /\ out' = <<>>

\* a text column of a fetched row
TextFromSql ==
  /\ op = "none"
  /\ \E payload \in TextPayloads :
       Decode("text_from_sql", payload, text_from_sql(payload))
  /\ slf' = Ltree(<<>>) /\ out0' = <<>> /\ out' = <<>>

\* the bytes the last binary encode wrote, behind the version byte 1,
\* handed to the binary decode
FromSqlVersioned ==
  /\ op = "to_sql"
  /\ Decode("from_sql_versioned", <<1>> \o Written,
            from_sql(<<1>> \o Written, debug_assertions))
  /\ UNCHANGED <<slf, out0, out>>

\* the bytes the last binary encode wrote, handed to the binary decode as
\* they are
FromSqlWritten ==
  /\ op = "to_sql"
  /\ Decode("from_sql_written", Written, from_sql(Written, debug_assertions))
  /\ UNCHANGED <<slf, out0, out>>

\* the bytes the last text encode wrote, handed to the text decode
TextFromSqlWritten ==
  /\ op = "text_to_sql"
  /\ Decode("text_from_sql_written", Written, text_from_sql(Written))
  /\ UNCHANGED <<slf, out0, out>>

\* an extension method called on a column or on the expression built
\* last, with a column, a Rust value or that expression as the operand
CallMethod ==
  /\ op \in {"none", "call"}
  /\ \E m \in Methods, left \in Columns \cup {expr}, other \in Columns \cup {BindValue, expr} :
       /\ left.ty = m.left
       /\ AsExpressionOf(other, m.right)
       /\ left.depth < MaxDepth + 1 /\ other.depth < MaxDepth + 1
       /\ expr' = call(m, left, other)
  /\ op' = "call"
  /\ slf' = Ltree(<<>>) /\ out0' = <<>> /\ out' = <<>>
  /\ value' = <<>> /\ ser' = SerNone /\ de' = DeNone
  /\ UNCHANGED debug_assertions

\* the values of the last call go out of scope
Drop ==
  /\ op # "none"
  /\ op' = "none"
  /\ slf' = Ltree(<<>>) /\ out0' = <<>> /\ out' = <<>>
  /\ value' = <<>> /\ ser' = SerNone /\ de' = DeNone
  /\ expr' = NoExpr
  /\ UNCHANGED debug_assertions

Next ==
  \/ ToSql
  \/ TextToSql
  \/ FromSql
  \/ TextFromSql
  \/ FromSqlVersioned
  \/ FromSqlWritten
  \/ TextFromSqlWritten
  \/ CallMethod
  \/ Drop

Spec == Init /\ [][Next]_vars

\* ------------------------------------------------------------- the claims
\* the signed value of a payload's first byte
VersionOf(payload) == IF payload[1] >= 128 THEN payload[1] - 256 ELSE payload[1]

\* C1: the bytes binary encode wrote for Ltree(s), behind the version byte
\* 1, decode to a value equal to Ltree(s), in a debug and in a release build
C1_BinaryRoundTrip ==
  op = "from_sql_versioned" =>
    /\ value = <<1>> \o slf.f0
    /\ de.tag = "Ok"
    /\ de.val = slf.f0

\* a round trip of a path with a two-byte character has happened
C1_Witness ==
  /\ op = "from_sql_versioned"
  /\ slf.f0 = <<97, 195, 169>>
  /\ out0 = <<>>
  /\ de = DeOk(slf)

\* C2 as stated: binary decode of any payload of at least one byte whose
\* bytes after the first are not valid UTF-8 returns Err: no panic, no path
C2_Original ==
  (op = "from_sql" /\ Len(value) >= 1 /\ ~from_utf8_ok(Tail(value))) =>
    de.tag = "Err"

\* C2 amended: such a payload is answered with the decoding error, and no
\* path, whenever the decode gets as far as the UTF-8 check, that is in a
\* release build or with the version byte 1; in a debug build with another
\* version byte the assertion panics first
C2_InvalidUtf8IsErr ==
  (op = "from_sql" /\ Len(value) >= 1 /\ ~from_utf8_ok(Tail(value))) =>
    IF ~debug_assertions \/ VersionOf(value) = 1
    THEN de = DeErr("InvalidData")
    ELSE de.tag = "Panic"

\* a debug build has refused a truncated two-byte character behind
\* version byte 1
C2_Witness ==
  /\ op = "from_sql"
  /\ debug_assertions
  /\ value = <<1, 97, 195>>
  /\ de.tag = "Err"

\* C3: binary decode of the zero-length payload returns an error, never
\* the empty path
C3_EmptyPayloadIsErr ==
  (op = "from_sql" /\ value = <<>>) =>
    /\ de.tag = "Err"
    /\ de # DeOk(Ltree(<<>>))

\* the zero-length payload has been decoded
C3_Witness ==
  /\ op = "from_sql"
  /\ value = <<>>
  /\ de = DeErr("UnexpectedEof")

\* the token each method renders, as the claim lists them
ClaimedToken(trait, method) ==
  CASE method \in {"contains", "contains_any", "any_contains"} -> "@>"
    [] method \in {"contained_by", "contained_by_any", "any_contained_by"} -> "<@"
    [] trait = "LtreeExtensions" /\ method = "matches" -> "~"
    [] trait = "LtreeArrayExtensions" /\ method = "any_matches" -> "~"
    [] trait = "LqueryExtensions" /\ method \in {"matches", "matches_any"} -> "~"
    [] trait = "LtreeExtensions" /\ method = "matches_any" -> "?"
    [] trait = "LtreeArrayExtensions" /\ method = "any_matches_any" -> "?"
    [] trait = "LqueryArrayExtensions" /\ method \in {"any_matches", "any_matches_any"} -> "?"
    [] method \in {"tmatches", "any_tmatches", "tmatches_any"} -> "@"
    [] method = "concat" -> "||"
    [] method = "first_contains" -> "?@>"
    [] method = "first_contained_by" -> "?<@"
    [] method = "first_matches" -> "?~"
    [] method = "first_tmatches" -> "?@"
    [] OTHER -> "no such method"

\* C4: the SQL of an expression built by an extension method is its left
\* operand's SQL, one space, the method's token, one space, its right
\* operand's SQL, whatever the operands are; matches on a column with a
\* pattern value renders <column> ~ <pattern>
C4_RendersToken ==
  op = "call" =>
    /\ expr.sql = expr.lsql \o " " \o ClaimedToken(expr.trait, expr.method) \o " " \o expr.rsql
    /\ (expr.trait = "LtreeExtensions" /\ expr.method = "matches"
          /\ expr.lsql = "path" /\ expr.rsql = "$1") => expr.sql = "path ~ $1"

\* matches_any has been called on an lquery column with an ltree[] column
\* as its operand
C4_Witness ==
  /\ op = "call"
  /\ expr.trait = "LqueryExtensions"
  /\ expr.method = "matches_any"
  /\ expr.sql = "q ~ paths"

\* C5: the text encode of Ltree(s) appends what String's text encode
\* appends for s, the bytes of s and nothing else ("a.b.c" gives the five
\* bytes a . b . c); the text decode returns Ltree(t) exactly when String's
\* text decode returns t, and String's error otherwise
C5_TextDelegates ==
  /\ op = "text_to_sql" =>
       /\ out = String_to_sql(slf.f0, out0).out
       /\ out = out0 \o slf.f0
       /\ ser = String_to_sql(slf.f0, out0).ret
       /\ slf.f0 = ExamplePath => Written = <<97, 46, 98, 46, 99>>
  /\ op \in {"text_from_sql", "text_from_sql_written"} =>
       LET r == String_from_sql(value)
       IN  /\ r.tag = "Ok" => de = DeOk(Ltree(r.s))
           /\ r.tag = "Err" => de = DeErr(r.err)
           /\ de.tag = "Ok" <=> r.tag = "Ok"
  /\ op = "text_from_sql_written" => de = DeOk(slf)

\* "a.b.c" has been text-encoded into a buffer that held two bytes
C5_Witness ==
  /\ op = "text_to_sql"
  /\ slf.f0 = ExamplePath
  /\ out0 = <<0, 97>>
  /\ out = <<0, 97, 97, 46, 98, 46, 99>>

\* C6: binary encode leaves what the Output held in place and appends the
\* bytes of s, as many as s has, with nothing before or after them
C6_EncodeAppendsBytes ==
  op = "to_sql" =>
    /\ out = out0 \o slf.f0
    /\ Written = slf.f0
    /\ Len(out) - Len(out0) = Len(slf.f0)

\* a three-byte path has been encoded into a buffer that held one byte
C6_Witness ==
  /\ op = "to_sql"
  /\ out0 = <<0>>
  /\ slf.f0 = <<97, 46, 97>>
  /\ out = <<0, 97, 46, 97>>

\* C7: binary encode returns Ok(IsNull::No) for every path, the empty one
\* too; no encode returns an error; an error comes from a decode only
C7_EncodeInfallible ==
  /\ op = "to_sql" => ser = SerOk("No")
  /\ ser.tag # "Err"
  /\ de.tag = "Err" =>
       op \in {"from_sql", "from_sql_versioned", "from_sql_written",
               "text_from_sql", "text_from_sql_written"}

\* the empty path has been encoded
C7_Witness ==
  /\ op = "to_sql"
  /\ slf.f0 = <<>>
  /\ ser = SerOk("No")

\* C8: in a release build a payload with any first byte and a valid UTF-8
\* tail decodes to that tail, as it does behind version byte 1, and never
\* panics; in a debug build the decode of a non-empty payload panics
\* exactly when the first byte is not 1
C8_SoftVersionCheck ==
  (op = "from_sql" /\ Len(value) >= 1) =>
    /\ (~debug_assertions /\ from_utf8_ok(Tail(value))) =>
         /\ de.tag = "Ok"
         /\ de.val = Tail(value)
         /\ de = from_sql(<<1>> \o Tail(value), debug_assertions)
    /\ ~debug_assertions => de.tag # "Panic"
    /\ debug_assertions => (de.tag = "Panic" <=> VersionOf(value) # 1)

\* a release build has decoded a payload whose version byte is -128
C8_Witness ==
  /\ op = "from_sql"
  /\ ~debug_assertions
  /\ value = <<128, 97, 46, 97>>
  /\ de.tag = "Ok"
  /\ de.val = <<97, 46, 97>>

\* C9 as stated: the bytes binary encode wrote for Ltree(s), handed to
\* binary decode with nothing prepended, decode to a value equal to Ltree(s)
C9_Original ==
  op = "from_sql_written" =>
    /\ de.tag = "Ok"
    /\ de.val = slf.f0

\* the SQL type each trait is implemented for, as the claim lists them
ClaimedCapability(trait) ==
  CASE trait = "LtreeExtensions" -> TLtree
    [] trait = "LtreeArrayExtensions" -> TLtreeArray
    [] trait = "LqueryExtensions" -> TLquery
    [] trait = "LqueryArrayExtensions" -> TLqueryArray
    [] trait = "LtxtqueryExtensions" -> TLtxtquery
    [] OTHER -> "no such trait"

\* the ten operators, with the spaces they are declared with
TenOperators ==
  {" @> ", " <@ ", " ~ ", " ? ", " @ ", " || ", " ?@> ", " ?<@ ", " ?~ ", " ?@ "}

LtreeOperators == {" || ", " ?@> ", " ?<@ ", " ?~ ", " ?@ "}

FirstMethods == {"first_contains", "first_contained_by", "first_matches", "first_tmatches"}

\* the operator, operand types and result type of a built expression
Typing(e) == <<e.lty, infix_operator(e.op).sql, e.rty, e.ty>>

C10_TypingOfExpr ==
  op = "call" =>
    /\ expr.lty = ClaimedCapability(expr.trait)
    /\ expr.rty \in {TLtree, TLtreeArray, TLquery, TLqueryArray, TLtxtquery}
    /\ infix_operator(expr.op).sql \in TenOperators
    /\ expr.ty = (IF infix_operator(expr.op).sql \in LtreeOperators THEN TLtree ELSE TBool)
    /\ infix_operator(expr.op).sql = " ? " => (expr.lty # TLquery /\ expr.rty # TLquery)
    /\ expr.method \in FirstMethods => expr.lty \in {TLtreeArray, TLqueryArray}
    /\ Cardinality({infix_operator(m.op).sql : m \in Methods}) = 10
    /\ {infix_operator(m.op).sql : m \in Methods} = TenOperators

C10_SameMethodSameTyping ==
  (op = "call" /\ op' = "call" /\ expr.trait = expr'.trait /\ expr.method = expr'.method)
    => Typing(expr') = Typing(expr)

\* C10: every built expression has the left type of its trait, one of the
\* five types on the right, one of the ten operators, the result type ltree
\* for || ?@> ?<@ ?~ ?@ and boolean otherwise; ? never has a plain lquery
\* on either side, first_* only has an array on the left; the ten operators
\* are all used; and two calls of one method have the same types and
\* operator whatever their operands
C10_OperatorTyping == [](C10_TypingOfExpr) /\ [][C10_SameMethodSameTyping]_vars

\* concat has been called on the result of a first_* call
C10_Witness ==
  /\ op = "call"
  /\ expr.method = "concat"
  /\ expr.lsql = "paths ?~ $1"
  /\ expr.lty = TLtree
  /\ expr.ty = TLtree

====
